---- MODULE Spec2Model ----
(***************************************************************************)
(* Model of the lottery persistence layer, src-tauri/src/storage.rs:       *)
(* the LotteryState data model, its JSON encoding, the logical validator   *)
(* and the five commands save_lottery_data, load_lottery_data,             *)
(* backup_data, restore_from_backup and validate_data acting on the file   *)
(* system.                                                                 *)
(*                                                                         *)
(* A file's content is a sequence of tokens <<key, a, b>>, one per JSON    *)
(* member or bracket of the pretty-printed document.  Contents are text:   *)
(* every file of the model is valid UTF-8.  u32 values are kept at their   *)
(* width as a pair <<hi, lo>> of 16-bit halves.                            *)
(***************************************************************************)
EXTENDS Integers, Sequences, FiniteSets, TLC

VARIABLES fs, dirExists, now, call, scen

vars == <<fs, dirExists, now, call, scen>>

(***************************************************************************)
(* Bounds of the model.                                                    *)
(***************************************************************************)
\* the clock runs over the seconds 0..MaxClock
MaxClock == 1
\* uuid::Uuid::new_v4() draws from 1..MaxUuid
MaxUuid == 2
\* a failing write leaves at most MaxCut tokens behind
MaxCut == 0
\* the validator's inputs hold at most MaxResults results
MaxResults == 2

(***************************************************************************)
(* u32 arithmetic (storage.rs: the u32 fields of RemainingDraws and        *)
(* LotteryConfig).                                                         *)
(***************************************************************************)
Base == 65536

U32(n) == <<n \div Base, n % Base>>

IsU32(x) == x[1] \in 0..(Base - 1) /\ x[2] \in 0..(Base - 1)

\* a + b on u32: the wrapped sum and whether it overflowed
AddU32(a, b) ==
    LET lo == a[2] + b[2]
        hi == a[1] + b[1] + (lo \div Base)
    IN  [val |-> <<hi % Base, lo % Base>>, ovf |-> hi >= Base]

\* a * 3 on u32: the wrapped product and whether it overflowed
Mul3U32(a) ==
    LET lo == a[2] * 3
        hi == a[1] * 3 + (lo \div Base)
    IN  [val |-> <<hi % Base, lo % Base>>, ovf |-> hi >= Base]

(***************************************************************************)
(* The data model.                                                         *)
(***************************************************************************)
PrizeColor == <<"red", "yellow", "blue">>

Prize(color, n) == [color |-> color, n |-> n]

LotteryResult(prizeIdx, drawNumber) ==
    [prizeId |-> prizeIdx, drawNumber |-> drawNumber]

RemainingDraws(r, y, b) == [red |-> r, yellow |-> y, blue |-> b]

\* endTime is an Option: <<>> is None, <<t>> is Some(t)
LotteryCycle(id, startTime, endTime, results, completed, remaining) ==
    [id |-> id, startTime |-> startTime, endTime |-> endTime,
     results |-> results, completed |-> completed,
     remainingDraws |-> remaining]

LotteryConfig(dpc, dpcol, anim, dur) ==
    [drawsPerCycle |-> dpc, drawsPerColor |-> dpcol,
     enableAnimations |-> anim, animationDuration |-> dur]

LotteryState(cycle, history, prizes, config) ==
    [currentCycle |-> cycle, history |-> history,
     availablePrizes |-> prizes, config |-> config]

create_default_prizes ==
    << Prize("red", 1), Prize("red", 2),
       Prize("yellow", 1), Prize("yellow", 2),
       Prize("blue", 1), Prize("blue", 2) >>

\* create_default_state, had it left one blue draw out of the new cycle
create_default_state_ShortOfBlue(t, u) ==
    LotteryState(
        LotteryCycle(<<t, u>>, t, <<>>, <<>>, FALSE,
                     RemainingDraws(U32(2), U32(2), U32(1))),
        <<>>,
        create_default_prizes,
        LotteryConfig(U32(6), U32(2), TRUE, U32(2000)))

\* the state create_default_state() builds at time t with uuid u
create_default_state(t, u) ==
    LotteryState(
        LotteryCycle(<<t, u>>, t, <<>>, <<>>, FALSE,
                     RemainingDraws(U32(2), U32(2), U32(2))),
        <<>>,
        create_default_prizes,
        LotteryConfig(U32(6), U32(2), TRUE, U32(2000)))

(***************************************************************************)
(* The logical validator.                                                  *)
(***************************************************************************)
\* results.len() as u32
LenAsU32(s) == U32(Len(s) % Base)

\* validate_lottery_state with wrapping arithmetic (a release build)
ValidateWrapping(state) ==
    LET cfg  == state.config
        rem  == state.currentCycle.remainingDraws
        ry   == AddU32(rem.red, rem.yellow).val
        tot  == AddU32(ry, rem.blue).val
        done == LenAsU32(state.currentCycle.results)
    IN  IF \/ cfg.drawsPerCycle = U32(0)
           \/ cfg.drawsPerColor = U32(0)
           \/ cfg.drawsPerCycle # Mul3U32(cfg.drawsPerColor).val
        THEN FALSE
        ELSE IF AddU32(tot, done).val # cfg.drawsPerCycle
        THEN FALSE
        ELSE IF Len(state.availablePrizes) = 0
        THEN FALSE
        ELSE TRUE

\* whether an arithmetic operation that validate_lottery_state evaluates
\* overflows (a build with overflow checks panics there)
ValidateOverflows(state) ==
    LET cfg  == state.config
        rem  == state.currentCycle.remainingDraws
        ry   == AddU32(rem.red, rem.yellow)
        tot  == AddU32(ry.val, rem.blue)
        done == LenAsU32(state.currentCycle.results)
    IN  IF cfg.drawsPerCycle = U32(0) \/ cfg.drawsPerColor = U32(0)
        THEN FALSE
        ELSE IF Mul3U32(cfg.drawsPerColor).ovf
        THEN TRUE
        ELSE IF cfg.drawsPerCycle # Mul3U32(cfg.drawsPerColor).val
        THEN FALSE
        ELSE ry.ovf \/ tot.ovf \/ AddU32(tot.val, done).ovf

\* the outcomes of validate_lottery_state(state): "true", "false", or
\* "panic" where an overflow-checking build aborts
validate_lottery_state(state) ==
    LET r == IF ValidateWrapping(state) THEN "true" ELSE "false"
    IN  IF ValidateOverflows(state) THEN {r, "panic"} ELSE {r}

(***************************************************************************)
(* The encoding: serde_json::to_string_pretty writes the members in the    *)
(* order of the struct's fields, under their serde names; an Option that   *)
(* is None is written as null.  A token is <<key, a, b>>.                  *)
(***************************************************************************)
Tok(k, a, b) == <<k, a, b>>

ColorCode(c) == CHOOSE i \in 1..3 : PrizeColor[i] = c

RECURSIVE EncodeResults(_)
EncodeResults(rs) ==
    IF rs = <<>> THEN <<>>
    ELSE <<Tok("result", Head(rs).prizeId, Head(rs).drawNumber)>>
         \o EncodeResults(Tail(rs))

RECURSIVE EncodePrizes(_)
EncodePrizes(ps) ==
    IF ps = <<>> THEN <<>>
    ELSE <<Tok("prize", ColorCode(Head(ps).color), Head(ps).n)>>
         \o EncodePrizes(Tail(ps))

EncodeCycle(c) ==
    << Tok("cycle{", 0, 0),
       Tok("id", c.id[1], c.id[2]),
       Tok("startTime", 0, c.startTime),
       IF c.endTime = <<>> THEN Tok("endTime", 0, 0)
                           ELSE Tok("endTime", 1, c.endTime[1]),
       Tok("results[", 0, 0) >>
    \o EncodeResults(c.results)
    \o << Tok("]", 0, 0),
          Tok("completed", 0, IF c.completed THEN 1 ELSE 0),
          Tok("red", c.remainingDraws.red[1], c.remainingDraws.red[2]),
          Tok("yellow", c.remainingDraws.yellow[1], c.remainingDraws.yellow[2]),
          Tok("blue", c.remainingDraws.blue[1], c.remainingDraws.blue[2]),
          Tok("}", 0, 0) >>

RECURSIVE EncodeHistory(_)
EncodeHistory(h) ==
    IF h = <<>> THEN <<>>
    ELSE EncodeCycle(Head(h)) \o EncodeHistory(Tail(h))

EncodeConfig(cfg) ==
    << Tok("drawsPerCycle", cfg.drawsPerCycle[1], cfg.drawsPerCycle[2]),
       Tok("drawsPerColor", cfg.drawsPerColor[1], cfg.drawsPerColor[2]),
       Tok("enableAnimations", 0, IF cfg.enableAnimations THEN 1 ELSE 0),
       Tok("animationDuration", cfg.animationDuration[1],
                                cfg.animationDuration[2]) >>

\* serde_json::to_string_pretty(&data)
Encode(state) ==
    <<Tok("{", 0, 0)>>
    \o EncodeCycle(state.currentCycle)
    \o <<Tok("history[", 0, 0)>>
    \o EncodeHistory(state.history)
    \o <<Tok("]", 0, 0), Tok("availablePrizes[", 0, 0)>>
    \o EncodePrizes(state.availablePrizes)
    \o <<Tok("]", 0, 0)>>
    \o EncodeConfig(state.config)
    \o <<Tok("}", 0, 0)>>

(***************************************************************************)
(* The decoding: serde_json::from_str::<LotteryState>.  The parser state  *)
(* is [ok, pos, last, cyc, st]: whether the text read so far is well       *)
(* formed, the position of the next token, the value last read, and the    *)
(* cycle and the state being built.  A missing Option member decodes as    *)
(* None; a number out of its type's range, an unknown colour, a missing    *)
(* member or trailing text is an error.                                    *)
(***************************************************************************)
KeyAt(b, i) == IF i \in 1..Len(b) THEN b[i][1] ELSE "EOF"

BlankCycle ==
    LotteryCycle(<<0, 0>>, 0, <<>>, <<>>, FALSE,
                 RemainingDraws(U32(0), U32(0), U32(0)))

BlankState ==
    LotteryState(BlankCycle, <<>>, <<>>,
                 LotteryConfig(U32(0), U32(0), FALSE, U32(0)))

ParseStart ==
    [ok |-> TRUE, pos |-> 1, last |-> <<0, 0>>,
     cyc |-> BlankCycle, st |-> BlankState]

Bad(r) == [r EXCEPT !.ok = FALSE]

\* the bracket k
ReadKey(b, r, k) ==
    IF r.ok /\ KeyAt(b, r.pos) = k
    THEN [r EXCEPT !.pos = @ + 1] ELSE Bad(r)

\* a member k holding a pair of numbers (an id)
ReadPair(b, r, k) ==
    IF r.ok /\ KeyAt(b, r.pos) = k
    THEN [r EXCEPT !.pos = @ + 1, !.last = <<b[r.pos][2], b[r.pos][3]>>]
    ELSE Bad(r)

\* a member k holding a u32
ReadU32(b, r, k) ==
    IF r.ok /\ KeyAt(b, r.pos) = k /\ IsU32(<<b[r.pos][2], b[r.pos][3]>>)
    THEN [r EXCEPT !.pos = @ + 1, !.last = <<b[r.pos][2], b[r.pos][3]>>]
    ELSE Bad(r)

\* a member k holding a bool, read as <<0, 0>> or <<0, 1>>
ReadBool(b, r, k) ==
    IF r.ok /\ KeyAt(b, r.pos) = k /\ b[r.pos][2] = 0 /\ b[r.pos][3] \in {0, 1}
    THEN [r EXCEPT !.pos = @ + 1, !.last = <<0, b[r.pos][3]>>]
    ELSE Bad(r)

\* endTime: Option<i64>, null or absent is None
ReadEndTime(b, r) ==
    IF r.ok /\ KeyAt(b, r.pos) = "endTime"
    THEN [r EXCEPT !.pos = @ + 1,
                   !.cyc.endTime = IF b[r.pos][2] = 1
                                   THEN <<b[r.pos][3]>> ELSE <<>>]
    ELSE [r EXCEPT !.cyc.endTime = <<>>]

RECURSIVE ReadResults(_, _)
ReadResults(b, r) ==
    IF ~ r.ok THEN r
    ELSE IF KeyAt(b, r.pos) = "]" THEN [r EXCEPT !.pos = @ + 1]
    ELSE IF KeyAt(b, r.pos) = "result" /\ IsU32(<<0, b[r.pos][3]>>)
    THEN ReadResults(b, [r EXCEPT !.pos = @ + 1,
             !.cyc.results =
                 Append(@, LotteryResult(b[r.pos][2], b[r.pos][3]))])
    ELSE Bad(r)

RECURSIVE ReadPrizes(_, _)
ReadPrizes(b, r) ==
    IF ~ r.ok THEN r
    ELSE IF KeyAt(b, r.pos) = "]" THEN [r EXCEPT !.pos = @ + 1]
    ELSE IF KeyAt(b, r.pos) = "prize" /\ b[r.pos][2] \in 1..3
    THEN ReadPrizes(b, [r EXCEPT !.pos = @ + 1,
             !.st.availablePrizes =
                 Append(@, Prize(PrizeColor[b[r.pos][2]], b[r.pos][3]))])
    ELSE Bad(r)

SetId(r) == [r EXCEPT !.cyc = [BlankCycle EXCEPT !.id = r.last]]
SetStartTime(r) == [r EXCEPT !.cyc.startTime = r.last[2]]
SetCompleted(r) == [r EXCEPT !.cyc.completed = (r.last[2] = 1)]
SetRed(r) == [r EXCEPT !.cyc.remainingDraws.red = r.last]
SetYellow(r) == [r EXCEPT !.cyc.remainingDraws.yellow = r.last]
SetBlue(r) == [r EXCEPT !.cyc.remainingDraws.blue = r.last]
SetCurrentCycle(r) == [r EXCEPT !.st.currentCycle = r.cyc]
\* AddHistory, had it put the cycle read at the front of the history
AddHistory_Prepending(r) == [r EXCEPT !.st.history = <<r.cyc>> \o @]

AddHistory(r) == [r EXCEPT !.st.history = Append(@, r.cyc)]
SetDrawsPerCycle(r) == [r EXCEPT !.st.config.drawsPerCycle = r.last]
SetDrawsPerColor(r) == [r EXCEPT !.st.config.drawsPerColor = r.last]
SetEnableAnimations(r) ==
    [r EXCEPT !.st.config.enableAnimations = (r.last[2] = 1)]
SetAnimationDuration(r) == [r EXCEPT !.st.config.animationDuration = r.last]

\* a LotteryCycle, left in r.cyc
ReadCycle(b, r) ==
    ReadKey(b,
      SetBlue(ReadU32(b,
        SetYellow(ReadU32(b,
          SetRed(ReadU32(b,
            SetCompleted(ReadBool(b,
              ReadResults(b, ReadKey(b,
                ReadEndTime(b,
                  SetStartTime(ReadPair(b,
                    SetId(ReadPair(b, ReadKey(b, r, "cycle{"), "id")),
                    "startTime"))),
                "results[")),
              "completed")),
            "red")),
          "yellow")),
        "blue")),
      "}")

RECURSIVE ReadHistory(_, _)
ReadHistory(b, r) ==
    IF ~ r.ok THEN r
    ELSE IF KeyAt(b, r.pos) = "]" THEN [r EXCEPT !.pos = @ + 1]
    ELSE ReadHistory(b, AddHistory(ReadCycle(b, r)))

ReadConfig(b, r) ==
    SetAnimationDuration(ReadU32(b,
      SetEnableAnimations(ReadBool(b,
        SetDrawsPerColor(ReadU32(b,
          SetDrawsPerCycle(ReadU32(b, r, "drawsPerCycle")),
          "drawsPerColor")),
        "enableAnimations")),
      "animationDuration"))

ReadState(b) ==
    ReadKey(b,
      ReadConfig(b,
        ReadPrizes(b, ReadKey(b,
          ReadHistory(b, ReadKey(b,
            SetCurrentCycle(ReadCycle(b, ReadKey(b, ParseStart, "{"))),
            "history[")),
          "availablePrizes["))),
      "}")

\* the end of the text: nothing may follow the document
Parsed(b, r) ==
    IF r.ok /\ r.pos = Len(b) + 1
    THEN [ok |-> TRUE, val |-> r.st]
    ELSE [ok |-> FALSE, val |-> BlankState]

\* serde_json::from_str::<LotteryState>(&json_data): [ok, val]
Decode(b) == Parsed(b, ReadState(b))

Decodable(b) == Decode(b).ok

(***************************************************************************)
(* The file system.  A path is <<kind, n>>; a file is [exists, bytes].     *)
(***************************************************************************)
\* <documents>/lottery-game/data.json
LivePath == <<"live", 0>>

\* <documents>/lottery-game/data_backup_<timestamp>.json
BackupPath(t) == <<"backup", t>>

\* a file outside the application's directory, handed to restore
ExtPath == <<"ext", 0>>

BackupPaths == {BackupPath(t) : t \in 0..MaxClock}

Paths == {LivePath, ExtPath} \cup BackupPaths

NoFile == [exists |-> FALSE, bytes |-> <<>>]

FileOf(b) == [exists |-> TRUE, bytes |-> b]

Procs == {1, 2}

\* the callers of the sequential specification
SeqProcs == {1}

(***************************************************************************)
(* The values the callers and the environment supply.                      *)
(***************************************************************************)
\* a state in mid-cycle: one draw made, one completed cycle in the history
PlayedState ==
    LotteryState(
        LotteryCycle(<<0, 2>>, 0, <<>>, <<LotteryResult(1, 1)>>, FALSE,
                     RemainingDraws(U32(1), U32(2), U32(2))),
        << LotteryCycle(<<0, 1>>, 0, <<1>>, <<>>, TRUE,
                        RemainingDraws(U32(0), U32(0), U32(0))) >>,
        create_default_prizes,
        LotteryConfig(U32(6), U32(2), TRUE, U32(2000)))

\* a decodable state that fails the validator: drawsPerCycle = 0
ZeroCycleState ==
    LotteryState(
        LotteryCycle(<<0, 1>>, 0, <<>>, <<>>, FALSE,
                     RemainingDraws(U32(2), U32(2), U32(2))),
        <<>>,
        create_default_prizes,
        LotteryConfig(U32(0), U32(2), TRUE, U32(2000)))

\* the states a caller saves
SaveInputs == {create_default_state(0, 1), PlayedState}

\* text that is no LotteryState document
Garbage == <<Tok("garbage", 0, 0)>>

\* what a candidate file outside the application holds
CandidateContents == {Garbage, Encode(ZeroCycleState)}

\* what the live file holds after it is corrupted from outside
CorruptContents == {Garbage}

\* the candidate paths a caller hands to restore_from_backup
CandidatePaths == Paths

(***************************************************************************)
(* A call in flight: the command, its position, its arguments and locals,  *)
(* and, once it has returned, its result.  pre is the file system when     *)
(* the call started, post the file system when it returned (<<>> before).  *)
(***************************************************************************)
Idle ==
    [op |-> "none", pc |-> "idle", data |-> <<>>, cand |-> <<>>,
     bpath |-> <<>>, buf |-> <<>>, result |-> "none", ret |-> <<>>,
     pre |-> <<>>, post |-> <<>>]

NewCall(op, data, cand) ==
    [Idle EXCEPT !.op = op, !.pc = "path", !.data = data, !.cand = cand,
                 !.pre = fs]

CanStart(p) == call[p].pc \in {"idle", "done"}

\* the call of p with its position moved to pc
Goto(p, pc) == [call EXCEPT ![p].pc = pc]

\* the call of p returned with result and value ret
Returned(p, result, ret) ==
    [call EXCEPT ![p].pc = "done", ![p].result = result, ![p].ret = ret,
                 ![p].post = fs']

\* data written at offset 0 over cur
WriteAt(cur, data) == data \o SubSeq(cur, Len(data) + 1, Len(cur))

\* the lengths a write of data that fails part-way may have written
Cuts(data) == {k \in 0..MaxCut : k < Len(data)}

(***************************************************************************)
(* The recovery scenario of the specification, followed step by step from  *)
(* the empty install: stage k says its first k steps happened, in order    *)
(* and with nothing in between; -1 says the run left the scenario, -2 that *)
(* a step of the scenario ended otherwise than the scenario says.          *)
(***************************************************************************)
ScenOff == [stage |-> -1, state |-> <<>>, path |-> <<>>]

ScenBad == [stage |-> -2, state |-> <<>>, path |-> <<>>]

IoFaults == {"env", "read", "write", "copy"}

\* the scenario after call c returned result and ret, leaving file system f
ScenAfter(sc, c, result, ret, f) ==
    IF result \in IoFaults THEN ScenOff
    ELSE IF sc.stage = 0 /\ c.op = "validate"
    THEN IF result = "ok" /\ ret = <<TRUE>>
         THEN [sc EXCEPT !.stage = 1] ELSE ScenBad
    ELSE IF sc.stage = 1 /\ c.op = "save"
            /\ c.data = <<create_default_state(0, 1)>>
    THEN IF result = "ok"
         THEN [sc EXCEPT !.stage = 2, !.state = c.data] ELSE ScenBad
    ELSE IF sc.stage = 2 /\ c.op = "backup"
    THEN IF result = "ok" /\ ret # <<>> /\ f[ret[1]].exists
            /\ f[ret[1]].bytes = f[LivePath].bytes
            /\ f[LivePath] = FileOf(Encode(sc.state[1]))
         THEN [sc EXCEPT !.stage = 3, !.path = ret[1]] ELSE ScenBad
    ELSE IF sc.stage = 4 /\ c.op = "load"
    THEN IF result = "decode"
         THEN [sc EXCEPT !.stage = 5] ELSE ScenBad
    ELSE IF sc.stage = 5 /\ c.op = "restore" /\ c.cand = sc.path
    THEN IF result = "ok"
         THEN [sc EXCEPT !.stage = 6] ELSE ScenBad
    ELSE IF sc.stage = 6 /\ c.op = "load"
    THEN IF result = "ok" /\ ret = sc.state
         THEN [sc EXCEPT !.stage = 7] ELSE ScenBad
    ELSE IF sc.stage = -2 THEN ScenBad
    ELSE ScenOff

\* the scenario after the live file was corrupted from outside
ScenCorrupt(sc) ==
    IF sc.stage = 3 THEN [sc EXCEPT !.stage = 4]
    ELSE IF sc.stage = -2 THEN ScenBad
    ELSE ScenOff

(***************************************************************************)
(* The initial state: the empty install.                                   *)
(***************************************************************************)
Init ==
    /\ fs = [q \in Paths |-> NoFile]
    /\ dirExists = FALSE
    /\ now = 0
    /\ call = [p \in Procs |-> Idle]
    /\ scen = [stage |-> 0, state |-> <<>>, path |-> <<>>]

(***************************************************************************)
(* The commands.  Each is a sequence of steps, one per call that touches   *)
(* the file system; a step that can fail in the operating system has a     *)
(* failing branch.                                                         *)
(***************************************************************************)
\* p's call returns: its record and the scenario follow
Return(p, result, ret) ==
    /\ call' = Returned(p, result, ret)
    /\ scen' = ScenAfter(scen, call[p], result, ret, fs')

StartSave(p, d) ==
    /\ CanStart(p)
    /\ call' = [call EXCEPT ![p] = NewCall("save", <<d>>, <<>>)]
    /\ UNCHANGED <<fs, dirExists, now, scen>>

StartLoad(p) ==
    /\ CanStart(p)
    /\ call' = [call EXCEPT ![p] = NewCall("load", <<>>, <<>>)]
    /\ UNCHANGED <<fs, dirExists, now, scen>>

StartBackup(p) ==
    /\ CanStart(p)
    /\ call' = [call EXCEPT ![p] = NewCall("backup", <<>>, <<>>)]
    /\ UNCHANGED <<fs, dirExists, now, scen>>

StartRestore(p, cand) ==
    /\ CanStart(p)
    /\ call' = [call EXCEPT ![p] = NewCall("restore", <<>>, cand)]
    /\ UNCHANGED <<fs, dirExists, now, scen>>

StartValidate(p) ==
    /\ CanStart(p)
    /\ call' = [call EXCEPT ![p] = NewCall("validate", <<>>, <<>>)]
    /\ UNCHANGED <<fs, dirExists, now, scen>>

\* get_backup_path(): the backup file of the current second
get_backup_path == BackupPath(now)

\* get_data_path()?, the first statement of every command: the documents
\* directory is found and lottery-game created in it, or the command
\* returns the error.  save_lottery_data then serializes its argument,
\* backup_data calls get_backup_path.
get_data_path(p) ==
    /\ call[p].pc = "path"
    /\ \/ /\ dirExists' = TRUE
          /\ call' = [call EXCEPT
                ![p].pc = IF call[p].op = "save" THEN "open" ELSE "exists",
                ![p].buf = IF call[p].op = "save"
                           THEN Encode(call[p].data[1]) ELSE <<>>,
                ![p].bpath = IF call[p].op = "backup"
                             THEN get_backup_path ELSE <<>>]
          /\ UNCHANGED <<fs, now, scen>>
       \/ /\ UNCHANGED <<fs, dirExists, now>>
          /\ Return(p, "env", <<>>)

\* tokio_fs::write(&data_path, json_data), first half: the file is opened,
\* created if absent and truncated
SaveOpen(p) ==
    /\ call[p].op = "save" /\ call[p].pc = "open"
    /\ \/ /\ fs' = [fs EXCEPT ![LivePath] = FileOf(<<>>)]
          /\ call' = Goto(p, "write")
          /\ UNCHANGED <<dirExists, now, scen>>
       \/ /\ UNCHANGED <<fs, dirExists, now>>
          /\ Return(p, "write", <<>>)

\* tokio_fs::write, second half: the bytes are written from offset 0; a
\* write that fails has written a proper prefix of them
SaveWrite(p) ==
    /\ call[p].op = "save" /\ call[p].pc = "write"
    /\ \/ /\ fs' = [fs EXCEPT ![LivePath].bytes = WriteAt(@, call[p].buf)]
          /\ UNCHANGED <<dirExists, now>>
          /\ Return(p, "ok", <<>>)
       \/ \E k \in Cuts(call[p].buf) :
          /\ fs' = [fs EXCEPT ![LivePath].bytes =
                        WriteAt(@, SubSeq(call[p].buf, 1, k))]
          /\ UNCHANGED <<dirExists, now>>
          /\ Return(p, "write", <<>>)

\* LoadExists, had it saved the default state it returns
LoadExists_Creating(p) ==
    /\ call[p].op = "load" /\ call[p].pc = "exists"
    /\ UNCHANGED <<dirExists, now>>
    /\ IF ~ fs[LivePath].exists
       THEN \E u \in 1..MaxUuid :
              /\ fs' = [fs EXCEPT ![LivePath] =
                            FileOf(Encode(create_default_state(now, u)))]
              /\ Return(p, "ok", <<create_default_state(now, u)>>)
       ELSE call' = Goto(p, "read") /\ UNCHANGED <<fs, scen>>

\* load_lottery_data: if !data_path.exists() return the default state
LoadExists(p) ==
    /\ call[p].op = "load" /\ call[p].pc = "exists"
    /\ UNCHANGED <<fs, dirExists, now>>
    /\ IF ~ fs[LivePath].exists
       THEN \E u \in 1..MaxUuid :
                Return(p, "ok", <<create_default_state(now, u)>>)
       ELSE call' = Goto(p, "read") /\ UNCHANGED scen

\* LoadDecoded, had it fallen back to the default state on a decode error
LoadDecoded_Fallback(d) ==
    IF d.ok
    THEN [result |-> "ok", ret |-> <<d.val>>]
    ELSE [result |-> "ok", ret |-> <<create_default_state(0, 1)>>]

\* what load_lottery_data returns for the decoding d of the text it read
LoadDecoded(d) ==
    IF d.ok
    THEN [result |-> "ok", ret |-> <<d.val>>]
    ELSE [result |-> "decode", ret |-> <<>>]

\* load_lottery_data: read_to_string, then from_str
LoadRead(p) ==
    /\ call[p].op = "load" /\ call[p].pc = "read"
    /\ UNCHANGED <<fs, dirExists, now>>
    /\ \/ Return(p, "read", <<>>)
       \/ LET r == LoadDecoded(Decode(fs[LivePath].bytes))
          IN  Return(p, r.result, r.ret)

\* fs::copy(from, to), first half: from is opened, then to is opened,
\* created if absent and truncated
CopyOpen(p, from, to) ==
    /\ call[p].pc = "copyopen"
    /\ \/ /\ fs[from].exists
          /\ fs' = [fs EXCEPT ![to] = FileOf(<<>>)]
          /\ call' = Goto(p, "copydata")
          /\ UNCHANGED <<dirExists, now, scen>>
       \/ /\ UNCHANGED <<fs, dirExists, now>>
          /\ Return(p, "copy", <<>>)

\* fs::copy(from, to), second half: what from holds is written to to; a
\* copy that fails has written a proper prefix of it
CopyData(p, from, to, ret) ==
    /\ call[p].pc = "copydata"
    /\ \/ /\ fs' = [fs EXCEPT ![to].bytes = WriteAt(@, fs[from].bytes)]
          /\ UNCHANGED <<dirExists, now>>
          /\ Return(p, "ok", ret)
       \/ \E k \in Cuts(fs[from].bytes) :
          /\ fs' = [fs EXCEPT ![to].bytes =
                        WriteAt(@, SubSeq(fs[from].bytes, 1, k))]
          /\ UNCHANGED <<dirExists, now>>
          /\ Return(p, "copy", <<>>)

\* backup_data: if !data_path.exists() return the error
BackupExists(p) ==
    /\ call[p].op = "backup" /\ call[p].pc = "exists"
    /\ UNCHANGED <<fs, dirExists, now>>
    /\ IF ~ fs[LivePath].exists
       THEN Return(p, "nodata", <<>>)
       ELSE call' = Goto(p, "copyopen") /\ UNCHANGED scen

\* BackupCopyData, had it copied the backup path onto itself
BackupCopyData_Self(p) ==
    /\ call[p].op = "backup"
    /\ CopyData(p, call[p].bpath, call[p].bpath, <<call[p].bpath>>)

\* backup_data: tokio_fs::copy(&data_path, &backup_path)
BackupCopyOpen(p) ==
    /\ call[p].op = "backup"
    /\ CopyOpen(p, LivePath, call[p].bpath)

BackupCopyData(p) ==
    /\ call[p].op = "backup"
    /\ CopyData(p, LivePath, call[p].bpath, <<call[p].bpath>>)

\* RestoreExists, had it not looked for the candidate
RestoreExists_Unchecked(p) ==
    /\ call[p].op = "restore" /\ call[p].pc = "exists"
    /\ UNCHANGED <<fs, dirExists, now>>
    /\ call' = Goto(p, "read") /\ UNCHANGED scen

\* restore_from_backup: if !backup_path.exists() return the error
RestoreExists(p) ==
    /\ call[p].op = "restore" /\ call[p].pc = "exists"
    /\ UNCHANGED <<fs, dirExists, now>>
    /\ IF ~ fs[call[p].cand].exists
       THEN Return(p, "notfound", <<>>)
       ELSE call' = Goto(p, "read") /\ UNCHANGED scen

\* RestoreRead, had it not decoded the candidate
RestoreRead_Unchecked(p) ==
    /\ call[p].op = "restore" /\ call[p].pc = "read"
    /\ UNCHANGED <<fs, dirExists, now>>
    /\ \/ Return(p, "read", <<>>)
       \/ /\ call' = [call EXCEPT ![p].pc = "copyopen",
                                  ![p].buf = fs[call[p].cand].bytes]
          /\ UNCHANGED scen

\* whether b decodes as a state that validate_lottery_state accepts
DecodableValid(b) ==
    Decodable(b) /\ "true" \in validate_lottery_state(Decode(b).val)

\* RestoreRead, had it applied the validator to the candidate
RestoreRead_Validating(p) ==
    /\ call[p].op = "restore" /\ call[p].pc = "read"
    /\ UNCHANGED <<fs, dirExists, now>>
    /\ \/ Return(p, "read", <<>>)
       \/ /\ ~ DecodableValid(fs[call[p].cand].bytes)
          /\ Return(p, "decode", <<>>)
       \/ /\ DecodableValid(fs[call[p].cand].bytes)
          /\ call' = [call EXCEPT ![p].pc = "copyopen",
                                  ![p].buf = fs[call[p].cand].bytes]
          /\ UNCHANGED scen

\* restore_from_backup: read_to_string(&backup_path), then from_str
RestoreRead(p) ==
    /\ call[p].op = "restore" /\ call[p].pc = "read"
    /\ UNCHANGED <<fs, dirExists, now>>
    /\ \/ Return(p, "read", <<>>)
       \/ /\ ~ Decodable(fs[call[p].cand].bytes)
          /\ Return(p, "decode", <<>>)
       \/ /\ Decodable(fs[call[p].cand].bytes)
          /\ call' = [call EXCEPT ![p].pc = "copyopen",
                                  ![p].buf = fs[call[p].cand].bytes]
          /\ UNCHANGED scen

\* RestoreCopyData, had it returned without writing
RestoreCopyData_Skipped(p) ==
    /\ call[p].op = "restore" /\ call[p].pc = "copydata"
    /\ UNCHANGED <<fs, dirExists, now>>
    /\ Return(p, "ok", <<>>)

\* restore_from_backup: tokio_fs::copy(&backup_path, &data_path)
RestoreCopyOpen(p) ==
    /\ call[p].op = "restore"
    /\ CopyOpen(p, call[p].cand, LivePath)

RestoreCopyData(p) ==
    /\ call[p].op = "restore"
    /\ CopyData(p, call[p].cand, LivePath, <<>>)

\* validate_data: if !data_path.exists() return Ok(true)
ValidateExists(p) ==
    /\ call[p].op = "validate" /\ call[p].pc = "exists"
    /\ UNCHANGED <<fs, dirExists, now>>
    /\ IF ~ fs[LivePath].exists
       THEN Return(p, "ok", <<TRUE>>)
       ELSE call' = Goto(p, "read") /\ UNCHANGED scen

\* ValidateRead, had it replaced a live file that does not decode by the
\* default state
ValidateRead_Resetting(p) ==
    /\ call[p].op = "validate" /\ call[p].pc = "read"
    /\ UNCHANGED <<dirExists, now>>
    /\ \/ UNCHANGED fs /\ Return(p, "ok", <<FALSE>>)
       \/ /\ ~ Decodable(fs[LivePath].bytes)
          /\ fs' = [fs EXCEPT ![LivePath] =
                        FileOf(Encode(create_default_state(0, 1)))]
          /\ Return(p, "ok", <<FALSE>>)
       \/ /\ Decodable(fs[LivePath].bytes)
          /\ UNCHANGED fs
          /\ \E out \in validate_lottery_state(Decode(fs[LivePath].bytes).val) :
                IF out = "panic" THEN Return(p, "panic", <<>>)
                ELSE Return(p, "ok", <<out = "true">>)

\* validate_data: the match on read_to_string and on from_str
ValidateRead(p) ==
    /\ call[p].op = "validate" /\ call[p].pc = "read"
    /\ UNCHANGED <<fs, dirExists, now>>
    /\ \/ Return(p, "ok", <<FALSE>>)
       \/ /\ ~ Decodable(fs[LivePath].bytes)
          /\ Return(p, "ok", <<FALSE>>)
       \/ /\ Decodable(fs[LivePath].bytes)
          /\ \E out \in validate_lottery_state(Decode(fs[LivePath].bytes).val) :
                IF out = "panic" THEN Return(p, "panic", <<>>)
                ELSE Return(p, "ok", <<out = "true">>)

(***************************************************************************)
(* The environment.                                                        *)
(***************************************************************************)
Quiet == \A p \in Procs : CanStart(p)

\* the records of the returned calls are dropped when the environment acts
Forget == IF Quiet THEN [p \in Procs |-> Idle] ELSE call

\* time passes
Tick ==
    /\ now < MaxClock
    /\ now' = now + 1
    /\ call' = Forget
    /\ UNCHANGED <<fs, dirExists, scen>>

\* the live file is overwritten from outside the application
Corrupt(b) ==
    /\ Quiet
    /\ fs[LivePath].exists
    /\ fs' = [fs EXCEPT ![LivePath] = FileOf(b)]
    /\ scen' = ScenCorrupt(scen)
    /\ call' = Forget
    /\ UNCHANGED <<dirExists, now>>

\* a candidate file appears outside the application
PlaceCandidate(b) ==
    /\ Quiet
    /\ fs[ExtPath] # FileOf(b)
    /\ fs' = [fs EXCEPT ![ExtPath] = FileOf(b)]
    /\ scen' = IF scen.stage = -2 THEN ScenBad ELSE ScenOff
    /\ call' = Forget
    /\ UNCHANGED <<dirExists, now>>

(***************************************************************************)
(* The sequential specification: one caller, whose next call starts when   *)
(* the last has returned.                                                  *)
(***************************************************************************)
Step(p) ==
    \/ \E d \in SaveInputs : StartSave(p, d)
    \/ StartLoad(p)
    \/ StartBackup(p)
    \/ \E c \in CandidatePaths : StartRestore(p, c)
    \/ StartValidate(p)
    \/ get_data_path(p)
    \/ SaveOpen(p)
    \/ SaveWrite(p)
    \/ LoadExists(p)
    \/ LoadRead(p)
    \/ BackupExists(p)
    \/ BackupCopyOpen(p)
    \/ BackupCopyData(p)
    \/ RestoreExists(p)
    \/ RestoreRead(p)
    \/ RestoreCopyOpen(p)
    \/ RestoreCopyData(p)
    \/ ValidateExists(p)
    \/ ValidateRead(p)

Env ==
    \/ Tick
    \/ \E b \in CorruptContents : Corrupt(b)
    \/ \E b \in CandidateContents : PlaceCandidate(b)

Next == (\E p \in SeqProcs : Step(p)) \/ Env

Spec == Init /\ [][Next]_vars

(***************************************************************************)
(* The validator as a function: every input of ValidateInputs, and the     *)
(* outcome of validate_lottery_state on it.                                *)
(***************************************************************************)
\* 0x55555556, the least u32 whose triple exceeds 32 bits, and u32::MAX
U32Third == <<21845, 21846>>

U32Max == <<65535, 65535>>

CycleSamples == {U32(0), U32(2), U32(3), U32(6), U32Max}

ColorSamples == {U32(0), U32(1), U32(2), U32Third}

DrawSamples == {U32(0), U32(1), U32(2), U32(6), U32Max}

RECURSIVE ResultsOfLen(_)
ResultsOfLen(n) ==
    IF n = 0 THEN <<>> ELSE Append(ResultsOfLen(n - 1), LotteryResult(1, n))

ValidateInputs ==
    { LotteryState(
          LotteryCycle(<<0, 1>>, 0, <<>>, ResultsOfLen(n), FALSE,
                       RemainingDraws(r, y, b)),
          <<>>, prizes, LotteryConfig(dpc, col, TRUE, U32(2000))) :
      dpc \in CycleSamples, col \in ColorSamples,
      r \in DrawSamples, y \in DrawSamples, b \in DrawSamples,
      n \in 0..MaxResults, prizes \in {<<>>, create_default_prizes} }

\* the validator about to be applied to state
Applying(state) ==
    [Idle EXCEPT !.op = "validate_lottery_state", !.pc = "apply",
                 !.data = <<state>>]

InitValidate ==
    /\ fs = [q \in Paths |-> NoFile]
    /\ dirExists = FALSE
    /\ now = 0
    /\ \E state \in ValidateInputs :
          call = [p \in Procs |-> IF p \in SeqProcs THEN Applying(state)
                                                   ELSE Idle]
    /\ scen = [stage |-> 0, state |-> <<>>, path |-> <<>>]

\* validate_lottery_state(&state): its outcome is the call's result
ApplyValidate(p) ==
    /\ call[p].pc = "apply"
    /\ \E out \in validate_lottery_state(call[p].data[1]) :
          call' = [call EXCEPT ![p].pc = "done", ![p].result = out]
    /\ UNCHANGED <<fs, dirExists, now, scen>>

NextValidate == \E p \in SeqProcs : ApplyValidate(p)

SpecValidate == InitValidate /\ [][NextValidate]_vars

\* the inputs whose drawsPerColor * 3 fits 32 bits
InitValidateDraws ==
    /\ InitValidate
    /\ \A p \in SeqProcs :
          ~ Mul3U32(call[p].data[1].config.drawsPerColor).ovf

SpecValidateDraws == InitValidateDraws /\ [][NextValidate]_vars

(***************************************************************************)
(* The rules of the validator over the unbounded integers, in halves:      *)
(* a number is <<carry, hi, lo>>.                                          *)
(***************************************************************************)
Wide(a) == <<0, a[1], a[2]>>

\* a * 3, exactly
WideMul3(a) ==
    LET lo == a[2] * 3
        hi == a[1] * 3 + (lo \div Base)
    IN  <<hi \div Base, hi % Base, lo % Base>>

\* r + y + b + n, exactly
WideSum(r, y, b, n) ==
    LET lo == r[2] + y[2] + b[2] + n
        hi == r[1] + y[1] + b[1] + (lo \div Base)
    IN  <<hi \div Base, hi % Base, lo % Base>>

ConfigRule(state) ==
    /\ state.config.drawsPerCycle # U32(0)
    /\ state.config.drawsPerColor # U32(0)
    /\ Wide(state.config.drawsPerCycle) = WideMul3(state.config.drawsPerColor)

ConservationRule(state) ==
    WideSum(state.currentCycle.remainingDraws.red,
            state.currentCycle.remainingDraws.yellow,
            state.currentCycle.remainingDraws.blue,
            Len(state.currentCycle.results))
        = Wide(state.config.drawsPerCycle)

CatalogRule(state) == Len(state.availablePrizes) > 0

\* the validator returned for p's input: its result is "true" or "false"
Validated(p) ==
    /\ call[p].op = "validate_lottery_state"
    /\ call[p].result \in {"true", "false"}

(***************************************************************************)
(* C9.  validate returns false for every Config in which drawsPerCycle     *)
(* differs from drawsPerColor * 3 and for every Config with a zero         *)
(* drawsPerCycle or drawsPerColor, over all u32 values of the two fields,  *)
(* those whose triple exceeds 32 bits included: whenever it returns for    *)
(* such a Config, it returns false.                                        *)
(***************************************************************************)
C9_ConfigRatioRejected ==
    \A p \in Procs :
        (Validated(p) /\ ~ ConfigRule(call[p].data[1]))
            => call[p].result = "false"

(***************************************************************************)
(* C10.  validate returns false for every State whose current cycle        *)
(* violates draw-count conservation, over all u32 counter values, and      *)
(* returns true exactly when the conservation rule, the config rule and    *)
(* the catalog rule all hold: whenever it returns, it returns that.        *)
(***************************************************************************)
C10_ConservationExact ==
    \A p \in Procs :
        Validated(p) =>
            /\ ~ ConservationRule(call[p].data[1]) => call[p].result = "false"
            /\ call[p].result = "true" <=>
                  /\ ConfigRule(call[p].data[1])
                  /\ ConservationRule(call[p].data[1])
                  /\ CatalogRule(call[p].data[1])

(***************************************************************************)
(* Claims about the commands.  A returned call is one whose pc is "done";  *)
(* a call that met a failure of the operating system (the directory, a     *)
(* read, a write, a copy) returned one of IoFaults.                        *)
(***************************************************************************)
Done(p, op) == call[p].op = op /\ call[p].pc = "done"

NoFault(p) == call[p].result \notin IoFaults

C1_MalformedCandidate(p) ==
    /\ Done(p, "restore")
    /\ call[p].pre[call[p].cand].exists
    /\ ~ Decodable(call[p].pre[call[p].cand].bytes)

(***************************************************************************)
(* C1.  A restore_from_backup whose candidate file exists and does not     *)
(* decode as a LotteryState returns the decode error, and the live file    *)
(* is, when it returns, what it was when it was called, whatever that      *)
(* was.                                                                    *)
(***************************************************************************)
C1_RestoreMalformedLeavesLive ==
    \A p \in Procs :
        C1_MalformedCandidate(p) =>
            /\ NoFault(p) => call[p].result = "decode"
            /\ call[p].post[LivePath] = call[p].pre[LivePath]

C1_Witness ==
    \E p \in Procs :
        /\ C1_MalformedCandidate(p)
        /\ call[p].result = "decode"
        /\ call[p].cand = ExtPath
        /\ call[p].pre[LivePath].exists
        /\ Decodable(call[p].pre[LivePath].bytes)

(***************************************************************************)
(* C2.  In every run of restore_from_backup the copy over the live path    *)
(* happens only after the candidate was read and decoded, and the bytes    *)
(* that land in the live file are the bytes that passed the decode.        *)
(***************************************************************************)
C2_RestoreWritesDecodedBytes ==
    \A p \in Procs :
        /\ (call[p].op = "restore" /\ call[p].pc \in {"copyopen", "copydata"})
              => Decodable(call[p].buf)
        /\ (Done(p, "restore") /\ call[p].result = "ok")
              => /\ Decodable(call[p].buf)
                 /\ call[p].post[LivePath] = FileOf(call[p].buf)

C3_DecodableCandidate(p) ==
    /\ Done(p, "restore")
    /\ call[p].pre[call[p].cand].exists
    /\ Decodable(call[p].pre[call[p].cand].bytes)

(***************************************************************************)
(* C3.  A restore_from_backup whose candidate decodes as a LotteryState    *)
(* succeeds, also when that state fails the validator (drawsPerCycle = 0), *)
(* and when it returns the live file is byte-identical to the candidate    *)
(* file.                                                                   *)
(***************************************************************************)
C3_RestoreStructuralOnly ==
    \A p \in Procs :
        (C3_DecodableCandidate(p) /\ NoFault(p)) =>
            /\ call[p].result = "ok"
            /\ call[p].post[LivePath].exists
            /\ call[p].post[LivePath].bytes
                  = call[p].post[call[p].cand].bytes

C3_Witness ==
    \E p \in Procs :
        /\ C3_DecodableCandidate(p)
        /\ call[p].result = "ok"
        /\ call[p].pre[call[p].cand].bytes = Encode(ZeroCycleState)
        /\ validate_lottery_state(ZeroCycleState) = {"false"}
        /\ call[p].pre[LivePath] = FileOf(Encode(PlayedState))
        /\ call[p].post[LivePath] = FileOf(Encode(ZeroCycleState))

(***************************************************************************)
(* C4.  backup_data called while no live file exists (a fresh install      *)
(* before any save) fails with the "no data file" error and creates no     *)
(* backup file; called once a save has succeeded it succeeds and returns   *)
(* the path of a backup file that is byte-identical to the live file,      *)
(* which is unchanged.                                                     *)
(***************************************************************************)
C4_BackupPrecondition ==
    \A p \in Procs :
        Done(p, "backup") =>
            /\ ~ call[p].pre[LivePath].exists =>
                  /\ NoFault(p) => call[p].result = "nodata"
                  /\ \A q \in BackupPaths : ~ call[p].post[q].exists
            /\ (call[p].pre[LivePath].exists /\ NoFault(p)) =>
                  /\ call[p].result = "ok"
                  /\ call[p].ret # <<>>
                  /\ call[p].ret[1] \in BackupPaths
                  /\ call[p].post[call[p].ret[1]].exists
                  /\ call[p].post[call[p].ret[1]].bytes
                        = call[p].post[LivePath].bytes
                  /\ call[p].post[LivePath] = call[p].pre[LivePath]

C4_Witness ==
    \E p \in Procs :
        /\ Done(p, "backup")
        /\ call[p].result = "ok"
        /\ call[p].pre[LivePath] = FileOf(Encode(create_default_state(0, 1)))
        /\ ~ call[p].pre[call[p].ret[1]].exists
        /\ call[p].post[call[p].ret[1]]
              = FileOf(Encode(create_default_state(0, 1)))

(***************************************************************************)
(* C5.  A restore_from_backup whose candidate path names no file fails     *)
(* with the "candidate file not found" error, and the live file and every  *)
(* backup file are what they were before the call.                         *)
(***************************************************************************)
C5_RestoreMissingCandidate ==
    \A p \in Procs :
        (Done(p, "restore") /\ ~ call[p].pre[call[p].cand].exists) =>
            /\ NoFault(p) => call[p].result = "notfound"
            /\ call[p].post = call[p].pre

C5_Witness ==
    \E p \in Procs :
        /\ Done(p, "restore")
        /\ ~ call[p].pre[call[p].cand].exists
        /\ call[p].result = "notfound"
        /\ call[p].pre[LivePath].exists
        /\ \E q \in BackupPaths : call[p].pre[q].exists

DefaultStates ==
    {create_default_state(t, u) : t \in 0..MaxClock, u \in 1..MaxUuid}

(***************************************************************************)
(* C6.  load_lottery_data called while no live file exists returns, as a   *)
(* success, a state the default-state factory builds, and the live file    *)
(* is still absent when it returns.                                        *)
(***************************************************************************)
C6_LoadAbsentReturnsDefault ==
    \A p \in Procs :
        (Done(p, "load") /\ ~ call[p].pre[LivePath].exists) =>
            /\ NoFault(p) =>
                  /\ call[p].result = "ok"
                  /\ call[p].ret # <<>>
                  /\ call[p].ret[1] \in DefaultStates
            /\ ~ call[p].post[LivePath].exists

C6_Witness ==
    \E p \in Procs :
        /\ Done(p, "load")
        /\ ~ call[p].pre[LivePath].exists
        /\ call[p].result = "ok"
        /\ dirExists
        /\ ~ fs[LivePath].exists

C7_MalformedLive(p) ==
    /\ Done(p, "load")
    /\ call[p].pre[LivePath].exists
    /\ ~ Decodable(call[p].pre[LivePath].bytes)

(***************************************************************************)
(* C7.  load_lottery_data called while the live file exists and does not   *)
(* decode as a LotteryState returns the decode error, never a state, and   *)
(* leaves the live file as it was.                                         *)
(***************************************************************************)
C7_LoadMalformedFails ==
    \A p \in Procs :
        C7_MalformedLive(p) =>
            /\ call[p].result # "ok"
            /\ call[p].ret = <<>>
            /\ NoFault(p) => call[p].result = "decode"
            /\ call[p].post[LivePath] = call[p].pre[LivePath]

C7_Witness ==
    \E p \in Procs :
        /\ C7_MalformedLive(p)
        /\ call[p].result = "decode"
        /\ call[p].pre[LivePath] = FileOf(Garbage)

(***************************************************************************)
(* C8.  The recovery scenario, run from the empty install with nothing in  *)
(* between: validate_data returns true; save_lottery_data of the default   *)
(* state succeeds; backup_data returns a path whose file equals the live   *)
(* file just saved; once the live file is overwritten with text that is    *)
(* no document, load_lottery_data fails with the decode error;             *)
(* restore_from_backup of the backup path succeeds; load_lottery_data      *)
(* returns the state first saved.  No step of it ends otherwise.           *)
(***************************************************************************)
C8_ScenarioHolds == scen.stage # -2

C8_Witness ==
    /\ scen.stage = 7
    /\ scen.state = <<create_default_state(0, 1)>>
    /\ scen.path \in BackupPaths
    /\ \E p \in Procs : Done(p, "load") /\ call[p].ret = scen.state

(***************************************************************************)
(* C11.  validate_data never returns an error: with no live file it        *)
(* returns true, with a live file that does not decode it returns false,   *)
(* and a failure met while it runs, the failure to find or create the      *)
(* storage directory included, comes back as false.                        *)
(***************************************************************************)
C11_ValidateNeverErrors ==
    \A p \in Procs :
        Done(p, "validate") =>
            /\ call[p].result = "ok"
            /\ call[p].ret \in {<<TRUE>>, <<FALSE>>}
            /\ ~ call[p].pre[LivePath].exists => call[p].ret = <<TRUE>>
            /\ (/\ call[p].pre[LivePath].exists
                /\ ~ Decodable(call[p].pre[LivePath].bytes))
                  => call[p].ret = <<FALSE>>

(***************************************************************************)
(* C12.  save_lottery_data never leaves the live file half-written: when   *)
(* a save that failed returns, the live file is what it was when the save  *)
(* was called (or still absent); when a save that succeeded returns, the   *)
(* live file holds exactly the encoding of the saved state.                *)
(***************************************************************************)
C12_SaveAllOrNothing ==
    \A p \in Procs :
        Done(p, "save") =>
            /\ call[p].result # "ok"
                  => call[p].post[LivePath] = call[p].pre[LivePath]
            /\ call[p].result = "ok"
                  => call[p].post[LivePath] = FileOf(Encode(call[p].data[1]))

(***************************************************************************)
(* Saving and loading: one caller that saves the states of                 *)
(* RoundTripInputs and loads them back, nothing else writing the live      *)
(* file.                                                                   *)
(***************************************************************************)
PastCycleA ==
    LotteryCycle(<<0, 1>>, 0, <<1>>, <<>>, TRUE,
                 RemainingDraws(U32(0), U32(0), U32(0)))

PastCycleB ==
    LotteryCycle(<<0, 2>>, 1, <<>>, ResultsOfLen(1), FALSE,
                 RemainingDraws(U32(1), U32(2), U32(2)))

Histories == {<<>>, <<PastCycleA, PastCycleB>>, <<PastCycleB, PastCycleA>>}

\* states the validator accepts: n results, 6 - n draws remaining
RoundTripInputs ==
    { LotteryState(
          LotteryCycle(<<1, 2>>, 1, e, ResultsOfLen(n), FALSE,
                       RemainingDraws(U32(r), U32(2), U32(4 - r - n))),
          h, create_default_prizes,
          LotteryConfig(U32(6), U32(2), TRUE, U32(2000))) :
      e \in {<<>>, <<1>>}, n \in {k \in 0..MaxResults : k <= 3},
      r \in {0, 1}, h \in Histories }

NextRoundTrip ==
    \E p \in SeqProcs :
        \/ \E d \in RoundTripInputs : StartSave(p, d)
        \/ StartLoad(p)
        \/ get_data_path(p)
        \/ SaveOpen(p)
        \/ SaveWrite(p)
        \/ LoadExists(p)
        \/ LoadRead(p)

SpecRoundTrip == Init /\ [][NextRoundTrip]_vars

(***************************************************************************)
(* C13.  Save/load round trip: a save_lottery_data(s) that succeeds        *)
(* leaves the encoding of s in the live file, and a load_lottery_data      *)
(* that finds the encoding of a state s in the live file returns a state   *)
(* equal to s field for field, the absent and present endTime and the      *)
(* order of the history included.                                          *)
(***************************************************************************)
C13_SaveLoadRoundTrip ==
    \A p \in Procs :
        /\ (Done(p, "save") /\ call[p].result = "ok")
              => call[p].post[LivePath] = FileOf(Encode(call[p].data[1]))
        /\ (Done(p, "load") /\ NoFault(p))
              => \A s \in RoundTripInputs :
                    call[p].pre[LivePath] = FileOf(Encode(s))
                        => call[p].result = "ok" /\ call[p].ret = <<s>>

C13_Witness ==
    \E p \in Procs :
        /\ Done(p, "load")
        /\ call[p].result = "ok"
        /\ call[p].ret[1] \in RoundTripInputs
        /\ call[p].pre[LivePath] = FileOf(Encode(call[p].ret[1]))
        /\ call[p].ret[1].history = <<PastCycleB, PastCycleA>>
        /\ call[p].ret[1].currentCycle.endTime = <<>>
        /\ Len(call[p].ret[1].currentCycle.results) = 2

(***************************************************************************)
(* C14.  load_lottery_data applies the validator on read: every state it   *)
(* returns from an existing live file satisfies the config rule, the       *)
(* conservation rule and the catalog rule, so a live file that decodes     *)
(* and fails them is never returned as a state.                            *)
(***************************************************************************)
C14_LoadValidates ==
    \A p \in Procs :
        (Done(p, "load") /\ call[p].result = "ok"
                         /\ call[p].pre[LivePath].exists) =>
            /\ ConfigRule(call[p].ret[1])
            /\ ConservationRule(call[p].ret[1])
            /\ CatalogRule(call[p].ret[1])

\* p's load built the state it returned with the factory
FactoryOutput(p) ==
    /\ Done(p, "load")
    /\ call[p].result = "ok"
    /\ ~ call[p].pre[LivePath].exists

(***************************************************************************)
(* C15.  The state the default-state factory builds has six prizes,        *)
(* remaining draws {2, 2, 2}, no results, drawsPerCycle 6 and              *)
(* drawsPerColor 2, and validate_lottery_state returns true for it, for    *)
(* every start time and cycle id.                                          *)
(***************************************************************************)
C15_DefaultStateValid ==
    \A p \in Procs :
        FactoryOutput(p) =>
            /\ Len(call[p].ret[1].availablePrizes) = 6
            /\ call[p].ret[1].currentCycle.remainingDraws
                  = RemainingDraws(U32(2), U32(2), U32(2))
            /\ call[p].ret[1].currentCycle.results = <<>>
            /\ call[p].ret[1].config.drawsPerCycle = U32(6)
            /\ call[p].ret[1].config.drawsPerColor = U32(2)
            /\ validate_lottery_state(call[p].ret[1]) = {"true"}

C15_Witness ==
    \E p \in Procs :
        /\ FactoryOutput(p)
        /\ call[p].ret[1].currentCycle.id = <<1, 2>>
        /\ call[p].ret[1].currentCycle.startTime = 1

(***************************************************************************)
(* C17.  load_lottery_data, validate_data and backup_data never change     *)
(* the live file: when any of them returns, with success or with an        *)
(* error, the live file exists or not, and holds, what it did when the     *)
(* call began; of the other files a backup changes only its backup file.   *)
(***************************************************************************)
C17_ReadersLeaveLive ==
    \A p \in Procs :
        /\ (Done(p, "load") \/ Done(p, "validate"))
              => call[p].post = call[p].pre
        /\ Done(p, "backup")
              => \A q \in Paths :
                    q # call[p].bpath => call[p].post[q] = call[p].pre[q]

C17_Witness ==
    \E p \in Procs :
        /\ Done(p, "validate")
        /\ call[p].ret = <<FALSE>>
        /\ call[p].pre[LivePath] = FileOf(Garbage)
        /\ call[p].post[LivePath] = FileOf(Garbage)

(***************************************************************************)
(* The sequential specification without outside corruption and without a   *)
(* write that fails part-way: a tokio_fs::write or a copy that has opened   *)
(* its destination writes all of its bytes.                                *)
(***************************************************************************)
WholeWrites ==
    \A p \in Procs :
        call[p].pc \in {"write", "copydata"}
            => call'[p].result \notin {"write", "copy"}

StepWhole(p) ==
    \/ \E d \in SaveInputs : StartSave(p, d)
    \/ StartLoad(p)
    \/ StartBackup(p)
    \/ \E c \in CandidatePaths : StartRestore(p, c)
    \/ StartValidate(p)
    \/ get_data_path(p)
    \/ SaveOpen(p)
    \/ SaveWrite(p) /\ WholeWrites
    \/ LoadExists(p)
    \/ LoadRead(p)
    \/ BackupExists(p)
    \/ BackupCopyOpen(p)
    \/ BackupCopyData(p) /\ WholeWrites
    \/ RestoreExists(p)
    \/ RestoreRead(p)
    \/ RestoreCopyOpen(p)
    \/ RestoreCopyData(p) /\ WholeWrites
    \/ ValidateExists(p)
    \/ ValidateRead(p)

NextWhole ==
    \/ \E p \in SeqProcs : StepWhole(p)
    \/ Tick
    \/ \E b \in CandidateContents : PlaceCandidate(b)

SpecWhole == Init /\ [][NextWhole]_vars

(***************************************************************************)
(* C18.  From the empty install, after any sequence of calls of the five   *)
(* commands, one at a time and with no file write failing part-way, the    *)
(* live file is absent or decodes as a LotteryState, so that               *)
(* load_lottery_data never returns the decode error, and every backup      *)
(* file decodes.                                                           *)
(***************************************************************************)
C18_FilesStayDecodable ==
    Quiet =>
        /\ fs[LivePath].exists => Decodable(fs[LivePath].bytes)
        /\ \A q \in BackupPaths : fs[q].exists => Decodable(fs[q].bytes)
        /\ \A p \in Procs : Done(p, "load") => call[p].result # "decode"

(***************************************************************************)
(* Concurrent callers.  The commands are async and registered with one     *)
(* invoke_handler; nothing serializes them, and tokio_fs runs each file    *)
(* operation on its own blocking thread, so the steps of two calls         *)
(* interleave.                                                             *)
(***************************************************************************)
\* two callers, each saving
NextSaveSave ==
    \E p \in Procs :
        \/ \E d \in SaveInputs : StartSave(p, d)
        \/ get_data_path(p)
        \/ SaveOpen(p)
        \/ SaveWrite(p)

SpecSaveSave == Init /\ [][NextSaveSave]_vars

\* one caller saving, the other loading
NextSaveLoad ==
    \/ \E p \in SeqProcs :
          \/ \E d \in SaveInputs : StartSave(p, d)
          \/ get_data_path(p)
          \/ SaveOpen(p)
          \/ SaveWrite(p)
    \/ \E p \in Procs \ SeqProcs :
          \/ StartLoad(p)
          \/ get_data_path(p)
          \/ LoadExists(p)
          \/ LoadRead(p)

SpecSaveLoad == Init /\ [][NextSaveLoad]_vars

\* one caller saving the default state and backing up, the other restoring
\* from a backup file
NextBackupRestore ==
    \/ \E p \in SeqProcs :
          \/ StartSave(p, create_default_state(0, 1))
          \/ StartBackup(p)
          \/ get_data_path(p)
          \/ SaveOpen(p)
          \/ SaveWrite(p)
          \/ BackupExists(p)
          \/ BackupCopyOpen(p)
          \/ BackupCopyData(p)
    \/ \E p \in Procs \ SeqProcs :
          \/ \E c \in BackupPaths : StartRestore(p, c)
          \/ get_data_path(p)
          \/ RestoreExists(p)
          \/ RestoreRead(p)
          \/ RestoreCopyOpen(p)
          \/ RestoreCopyData(p)
    \/ Tick

SpecBackupRestore == Init /\ [][NextBackupRestore]_vars

(***************************************************************************)
(* C16.  When two save_lottery_data calls, of states s1 and s2, run        *)
(* concurrently and both return Ok, the live file then holds exactly the   *)
(* encoding of s1 or exactly the encoding of s2, never a mixture of the    *)
(* two nor a truncated document.                                           *)
(***************************************************************************)
C16_ConcurrentSavesWhole ==
    (\A p \in Procs : Done(p, "save") /\ call[p].result = "ok")
        => \E p \in Procs : fs[LivePath] = FileOf(Encode(call[p].data[1]))

(***************************************************************************)
(* C19.  A load_lottery_data that runs concurrently with saves over a live *)
(* file that exists and decodes returns the state stored before or a       *)
(* state being saved; it never fails with the decode error and never       *)
(* returns a state that was not stored.                                    *)
(***************************************************************************)
C19_LoadDuringSave ==
    \A p \in Procs :
        (/\ Done(p, "load")
         /\ call[p].pre[LivePath].exists
         /\ Decodable(call[p].pre[LivePath].bytes)) =>
            /\ call[p].result # "decode"
            /\ call[p].result = "ok" =>
                  call[p].ret[1] \in
                      {Decode(call[p].pre[LivePath].bytes).val} \cup SaveInputs

(***************************************************************************)
(* C20.  When restore_from_backup runs concurrently with a backup_data     *)
(* that rewrites its candidate (the backup file of the same second), the   *)
(* bytes the restore copies into the live file are the bytes it decoded:   *)
(* at the step that copies, the candidate file still holds them.           *)
(***************************************************************************)
C20_RestoreCopiesDecodedBytes ==
    [][\A p \in Procs :
          (/\ call[p].op = "restore"
           /\ call[p].cand \in BackupPaths
           /\ call[p].pc = "copydata"
           /\ call'[p].pc = "done"
           /\ call'[p].result = "ok")
              => fs[call[p].cand].bytes = call[p].buf]_vars

====
